---- MODULE Spec2Model ----
(***************************************************************************)
(* Resort booking backend: booking creation under concurrent demand.       *)
(*                                                                         *)
(* The model covers                                                        *)
(*   - POST /bookings      (routes/bookings.py, create_booking): the       *)
(*     transactional path and the lock-fallback path, step by step;        *)
(*   - POST /api/bookings  (routes/api_compat.py, create_booking);         *)
(*   - PUT/DELETE /bookings/{id} and POST /bookings/{id}/release;          *)
(*   - the pure room allocator allocate_rooms and _room_capacity.          *)
(*                                                                         *)
(* The store (MongoDB) is modelled by three collections: bookings,         *)
(* occupancies and locks.  A booking's _id is the number of the request    *)
(* that inserted it.                                                       *)
(***************************************************************************)
EXTENDS Integers, Sequences, FiniteSets, TLC

(***************************************************************************)
(* Bounds of the model.                                                    *)
(***************************************************************************)
NumReqs == 2          \* concurrent requests
NumAccs == 1          \* accommodations that can be booked
MaxDay == 3           \* calendar dates are 0..MaxDay
MaxAdminOps == 1      \* PUT / DELETE / release calls in one run
MaxCands == 4         \* candidate rooms in one call of allocate_rooms
MaxGuests == 9        \* guest count of a call of allocate_rooms

(***************************************************************************)
(* Time stamps.  A datetime is a number of half days: SlotsPerDay stamps   *)
(* fall on one calendar date, the first of them is midnight.               *)
(***************************************************************************)
SlotsPerDay == 2

Reqs == 1..NumReqs
Accs == 1..NumAccs
Days == 0..MaxDay
\* every midnight, and one time of day on date 0
Stamps == {d * SlotsPerDay : d \in Days} \cup {1}

\* datetime.date()
DateOf(t) == t \div SlotsPerDay

\* datetime(d.year, d.month, d.day): midnight of a date
Midnight(d) == d * SlotsPerDay

\* datetime.strptime(s, "%Y-%m-%d"): a string with a time of day does not parse
Parses(t) == t % SlotsPerDay = 0

(***************************************************************************)
(* Requests.  guests is <<>> (absent) or <<n>>; selected is the list of    *)
(* explicitly selected room ids (POST /api/bookings only).                 *)
(***************************************************************************)
GuestChoices == {<<>>, <<0>>, <<1>>, <<3>>}
ApiStamps == {0, 1, SlotsPerDay}
RoomIds == {1}
SelectedChoices == {<<>>, <<1>>, <<9>>}

\* the requests of the concurrent runs: every pair of time stamps, a guest
\* count the room holds and one it does not
BookingsInputs ==
  [entry : {"bookings"}, acc : Accs, check_in : Stamps, check_out : Stamps,
   guests : {<<1>>, <<3>>}, email : {TRUE}, selected : {<<>>}]

\* the requests of the validation runs
WideBookingsInputs ==
  [entry : {"bookings"}, acc : Accs, check_in : Stamps, check_out : Stamps,
   guests : GuestChoices, email : {TRUE}, selected : {<<>>}]

\* the requests that run beside a request of the validation runs
OtherBookingsInputs ==
  {i \in BookingsInputs :
     i.check_in = 0 /\ i.check_out \in {Midnight(1), Midnight(2)} /\ i.guests = <<1>>}

ApiInputs ==
  [entry : {"api"}, acc : {0}, check_in : ApiStamps, check_out : ApiStamps,
   guests : GuestChoices, email : BOOLEAN, selected : SelectedChoices]

NoInput ==
  [entry |-> "none", acc |-> 0, check_in |-> 0, check_out |-> 0,
   guests |-> <<>>, email |-> FALSE, selected |-> <<>>]

(***************************************************************************)
(* The rooms collection, read-only for the booking core: the document      *)
(* whose _id is the accommodation id of a POST /bookings request.          *)
(***************************************************************************)
RoomCapacity == 2
RoomExtraBeds == 0
rooms == [a \in Accs |-> [capacity |-> RoomCapacity, extra_beds |-> RoomExtraBeds]]

(***************************************************************************)
(* Python values of a room document's fields: a missing key, None, an     *)
(* int, or a string that is no number.                                     *)
(***************************************************************************)
Absent == <<"absent">>
PyNone == <<"none">>
PyInt(n) == <<"int", n>>
PyStr == <<"str">>

\* dict.get: None for a missing key
Get(v) == IF v = Absent THEN PyNone ELSE v

\* truthiness, for  x or default
Truthy(v) == (v[1] = "int" /\ v[2] # 0) \/ v[1] = "str"

Or(v, default) == IF Truthy(Get(v)) THEN v ELSE default

\* int(v) raises for None and for a string that is no number
CanInt(v) == v[1] = "int"

IsInt(v) == v[1] = "int"

RECURSIVE SumBedConfig(_)
\* api_compat.py 70-76: each entry adds int(count or 1), 1 when int() raises
SumBedConfig(bc) ==
  IF bc = <<>> THEN 0
  ELSE LET cnt == Or(Head(bc), PyInt(1))
       IN (IF CanInt(cnt) THEN cnt[2] ELSE 1) + SumBedConfig(Tail(bc))

\* api_compat.py 57 and 78: extra_beds unless None, else extra_bedding
ExtraBedsOf(room) ==
  IF Get(room.extra_beds) # PyNone THEN room.extra_beds ELSE Get(room.extra_bedding)

\* api_compat.py 46-83
room_capacity(room, allow_extra_beds) ==
  LET a == Or(room.capacity_adults, PyInt(0))
      c == Or(room.capacity_children, PyInt(0))
      eb == ExtraBedsOf(room)
      explicit == (room.capacity_adults # Absent \/ room.capacity_children # Absent)
                    /\ CanInt(a) /\ CanInt(c)
      base == IF IsInt(room.capacity) THEN room.capacity[2]
              ELSE IF IsInt(room.sleeps) THEN room.sleeps[2]
              ELSE SumBedConfig(room.bedConfig)
  IN IF explicit
       THEN a[2] + c[2] + (IF allow_extra_beds /\ eb # PyNone /\ CanInt(eb) THEN eb[2] ELSE 0)
       ELSE base + (IF allow_extra_beds THEN (IF IsInt(eb) THEN eb[2] ELSE 1) ELSE 0)

(***************************************************************************)
(* allocate_rooms, api_compat.py 86-142.  candidates is the list of room   *)
(* documents; a preferred type is a lower-case string.                     *)
(***************************************************************************)
\* 105: price_per_night or pricePerNight or price or 0 (the rooms of the
\* model carry price_per_night only)
PriceOf(room) == IF Truthy(Get(room.price_per_night)) THEN room.price_per_night[2] ELSE 0

\* a string is its letters and the case it is written in; str.lower()
Lower(str) == <<str[1], "lower">>

\* 93-94: (r.get(key) or "").lower()
LowerOrEmpty(v) == IF v[1] \in {"absent", "none"} THEN <<"", "lower">> ELSE Lower(v)

\* 91-96: the rooms whose slug or type is a preferred type, in list order
RECURSIVE FilterPrefs(_, _)
FilterPrefs(cands, prefs) ==
  IF cands = <<>> THEN <<>>
  ELSE (IF LowerOrEmpty(Head(cands).slug) \in prefs \/ LowerOrEmpty(Head(cands).type) \in prefs
          THEN <<Head(cands)>> ELSE <<>>) \o FilterPrefs(Tail(cands), prefs)

\* mutant: the preference filter is kept when it matches no room
FilteredStrict(cands, preferred_room_types) ==
  IF preferred_room_types # {}
    THEN FilterPrefs(cands, {Lower(t) : t \in preferred_room_types})
    ELSE cands

\* 89-100: the preference filter, ignored when it matches no room
Filtered(cands, preferred_room_types) ==
  LET prefs == {Lower(t) : t \in preferred_room_types}
  IN IF preferred_room_types # {} /\ FilterPrefs(cands, prefs) # <<>>
       THEN FilterPrefs(cands, prefs) ELSE cands

\* 102-106
Annotated(cands, allow_extra_beds) ==
  [k \in 1..Len(cands) |->
     [room |-> cands[k], cap |-> room_capacity(cands[k], allow_extra_beds),
      price |-> PriceOf(cands[k])]]

\* mutant: the first room that fits, whatever its price
MinByPriceFirst(seq) == seq[1]

\* min(singles, key=price): the first of the cheapest
RECURSIVE MinByPrice(_)
MinByPrice(seq) ==
  IF Len(seq) = 1 THEN seq[1]
  ELSE LET rest == MinByPrice(Tail(seq))
       IN IF rest.price < Head(seq).price THEN rest ELSE Head(seq)

\* itertools.combinations(range(lo, n + 1), k), in its order
RECURSIVE Combinations(_, _, _)
Combinations(lo, n, k) ==
  IF k = 0 THEN << <<>> >>
  ELSE IF lo > n THEN <<>>
  ELSE LET with == Combinations(lo + 1, n, k - 1)
       IN [j \in 1..Len(with) |-> <<lo>> \o with[j]] \o Combinations(lo + 1, n, k)

RECURSIVE SumOver(_, _, _)
SumOver(annotated, combo, field) ==
  IF combo = <<>> THEN 0
  ELSE (IF field = "cap" THEN annotated[Head(combo)].cap ELSE annotated[Head(combo)].price)
         + SumOver(annotated, Tail(combo), field)

\* mutant: the first valid combination is kept, whatever its price
RECURSIVE BestOfFirstValid(_, _, _, _)
BestOfFirstValid(annotated, combos, guests, best) ==
  IF combos = <<>> THEN best
  ELSE LET combo == Head(combos)
           valid == SumOver(annotated, combo, "cap") >= guests
       IN BestOfFirstValid(annotated, Tail(combos), guests,
                           IF valid /\ best = <<>> THEN combo ELSE best)

\* 119-126: the loop over the combinations of one size: a valid combination
\* replaces the best one only when it is strictly cheaper
RECURSIVE BestOf(_, _, _, _)
BestOf(annotated, combos, guests, best) ==
  IF combos = <<>> THEN best
  ELSE LET combo == Head(combos)
           valid == SumOver(annotated, combo, "cap") >= guests
           better == best = <<>>
                       \/ SumOver(annotated, combo, "price") < SumOver(annotated, best, "price")
       IN BestOf(annotated, Tail(combos), guests, IF valid /\ better THEN combo ELSE best)

\* 118-128: sizes 2..max_k, stopping at the first size with a valid combination
RECURSIVE BestCombo(_, _, _, _)
BestCombo(annotated, guests, k, max_k) ==
  IF k > max_k THEN <<>>
  ELSE LET best == BestOf(annotated, Combinations(1, Len(annotated), k), guests, <<>>)
       IN IF best # <<>> THEN best ELSE BestCombo(annotated, guests, k + 1, max_k)

\* mutant: the sort key is the capacity alone
BeforeByCapacity(a, b) == a.cap > b.cap

\* 132: sorted(annotated, key=(-cap, price)), a stable sort
Before(a, b) == a.cap > b.cap \/ (a.cap = b.cap /\ a.price < b.price)

RECURSIVE InsertSorted(_, _)
InsertSorted(sorted, a) ==
  IF sorted = <<>> THEN <<a>>
  ELSE IF Before(a, Head(sorted)) THEN <<a>> \o sorted
  ELSE <<Head(sorted)>> \o InsertSorted(Tail(sorted), a)

RECURSIVE SortedCand(_)
SortedCand(annotated) ==
  IF annotated = <<>> THEN <<>>
  ELSE InsertSorted(SortedCand(SubSeq(annotated, 1, Len(annotated) - 1)),
                    annotated[Len(annotated)])

\* mutant: every room is picked, also after the total has reached guests
RECURSIVE GreedyAll(_, _, _)
GreedyAll(sorted, guests, total) ==
  IF sorted = <<>> THEN [picked |-> <<>>, total |-> total]
  ELSE LET rest == GreedyAll(Tail(sorted), guests, total + Head(sorted).cap)
       IN [picked |-> <<Head(sorted).room.id>> \o rest.picked, total |-> rest.total]

\* 133-139: rooms are picked while the total is below guests
RECURSIVE Greedy(_, _, _)
Greedy(sorted, guests, total) ==
  IF sorted = <<>> \/ total >= guests THEN [picked |-> <<>>, total |-> total]
  ELSE LET rest == Greedy(Tail(sorted), guests, total + Head(sorted).cap)
       IN [picked |-> <<Head(sorted).room.id>> \o rest.picked, total |-> rest.total]

allocate_rooms(candidates, guests, allow_extra_beds, preferred_room_types, max_k) ==
  IF guests <= 0 THEN <<>>
  ELSE
    LET annotated == Annotated(Filtered(candidates, preferred_room_types), allow_extra_beds)
        singles == SelectSeq(annotated, LAMBDA a : a.cap >= guests)
        n == Len(annotated)
        best_combo == BestCombo(annotated, guests, 2, IF max_k < n THEN max_k ELSE n)
        greedy == Greedy(SortedCand(annotated), guests, 0)
    IN IF singles # <<>> THEN <<MinByPrice(singles).room.id>>
       ELSE IF best_combo # <<>>
         THEN [j \in 1..Len(best_combo) |-> annotated[best_combo[j]].room.id]
       ELSE IF greedy.total < guests THEN <<>>
       ELSE greedy.picked

(***************************************************************************)
(* Documents.                                                              *)
(***************************************************************************)
NoCall ==
  [at |-> "idle", candidates |-> <<>>, guests |-> 0, allow_extra_beds |-> FALSE,
   preferred_room_types |-> {}, max_k |-> 0, result |-> <<>>]

NoDoc == [accommodation_id |-> 0, check_in |-> 0, check_out |-> 0, status |-> "absent"]

VARIABLES
  bookings,     \* db["bookings"]: booking id -> document, NoDoc when absent
  occupancies,  \* db["occupancies"]: set of per-night documents
  locks,        \* db["locks"]: set of lock documents
  pc,           \* where each request's handler stands
  inp,          \* the request each handler was called with
  result,       \* the response a handler in its finally block is about to give
  outcome,      \* the response each finished handler gave
  occ_idx,      \* number of documents of occ_docs insert_many has written
  events,       \* booking ids for which bookings.created was published
  adminOps,     \* number of PUT / DELETE / release calls made
  del_pc,       \* the booking a running DELETE handler has found, 0 when none
  path,         \* history: the reserving path a request took last
  alloc         \* a call of allocate_rooms: its arguments and its result

vars == <<bookings, occupancies, locks, pc, inp, result, outcome, occ_idx,
          events, adminOps, del_pc, path, alloc>>

store == <<bookings, occupancies, locks>>

Init ==
  /\ bookings = [b \in Reqs |-> NoDoc]
  /\ occupancies = {}
  /\ locks = {}
  /\ pc = [r \in Reqs |-> "idle"]
  /\ inp = [r \in Reqs |-> NoInput]
  /\ result = [r \in Reqs |-> "none"]
  /\ outcome = [r \in Reqs |-> "none"]
  /\ occ_idx = [r \in Reqs |-> 0]
  /\ events = {}
  /\ adminOps = 0
  /\ del_pc = 0
  /\ path = [r \in Reqs |-> "none"]
  /\ alloc = NoCall

(***************************************************************************)
(* POST /bookings: validation and the values computed before reserving.    *)
(***************************************************************************)
\* mutant: only check_in > check_out is refused
DatesValidOrEqual(i) == i.check_in <= i.check_out

\* bookings.py 58: check_in >= check_out is a 400
DatesValid(i) == i.check_in < i.check_out

\* bookings.py 62-70: guests_req, <<>> for None.  The requests of the model
\* carry no adults / children, so without guests the sum is 0 and
\* guests_req is None.
GuestsReq(i) == IF i.guests # <<>> THEN i.guests ELSE <<>>

\* bookings.py 71-108: the capacity check passes unless guests_req exceeds
\* the capacity of the room document (allow_extra_beds is not set)
CapacityOk(i) ==
  LET g == GuestsReq(i) IN
    IF g = <<>> THEN TRUE
    ELSE LET total_cap == rooms[i.acc].capacity IN ~(g[1] > total_cap)

\* mutant: the loop runs while d <= end_date
RECURSIVE NightsThrough(_, _)
NightsThrough(d, end_date) ==
  IF d <= end_date THEN <<Midnight(d)>> \o NightsThrough(d + 1, end_date) ELSE <<>>

\* bookings.py 116-123: the loop  while d < end_date: nights.append(midnight(d))
RECURSIVE NightsFrom(_, _)
NightsFrom(d, end_date) ==
  IF d < end_date THEN <<Midnight(d)>> \o NightsFrom(d + 1, end_date) ELSE <<>>

nights(i) == NightsFrom(DateOf(i.check_in), DateOf(i.check_out))

\* bookings.py 128: lock_key = accom:<id>:<start_date>:<end_date>
lock_key(i) == <<i.acc, DateOf(i.check_in), DateOf(i.check_out)>>

\* bookings.py 42-43: the document inserted for a request
BookingDoc(i) ==
  [accommodation_id |-> i.acc, check_in |-> i.check_in,
   check_out |-> i.check_out, status |-> "pending"]

\* bookings.py 140-145 and 180-185: one occupancy document
OccDoc(r, i, nd) == [accommodation_id |-> i.acc, date |-> nd, booking_id |-> r]

\* mutant: the collection has no unique index
DuplicateUnchecked(occ, doc) == FALSE

\* the unique index of occupancies on (accommodation_id, date)
Duplicate(occ, doc) ==
  \E o \in occ : o.accommodation_id = doc.accommodation_id /\ o.date = doc.date

Finish(r, o) ==
  /\ pc' = [pc EXCEPT ![r] = "done"]
  /\ outcome' = [outcome EXCEPT ![r] = o]

(***************************************************************************)
(* POST /bookings, bookings.py 38-128: validation.                         *)
(***************************************************************************)
ValidateFrom(r, inputs) ==
  /\ pc[r] = "idle"
  /\ \E i \in inputs :
       /\ inp' = [inp EXCEPT ![r] = i]
       /\ IF DatesValid(i) /\ CapacityOk(i)
            THEN pc' = [pc EXCEPT ![r] = "reserve"] /\ UNCHANGED outcome
            ELSE Finish(r, "Rejected")
  /\ UNCHANGED <<store, result, occ_idx, events, adminOps, del_pc, path, alloc>>

Validate(r) == ValidateFrom(r, BookingsInputs)

ValidateWide(r) == ValidateFrom(r, WideBookingsInputs)

ValidateOther(r) == ValidateFrom(r, OtherBookingsInputs)

(***************************************************************************)
(* The transactional path, bookings.py 131-156.  Writes made in the        *)
(* session are invisible to the others until the transaction commits.      *)
(***************************************************************************)
\* 133-136: the transaction starts and the booking is inserted in it
TxnInsertBooking(r) ==
  /\ pc[r] = "reserve"
  /\ pc' = [pc EXCEPT ![r] = "txn"]
  /\ path' = [path EXCEPT ![r] = "txn"]
  /\ UNCHANGED <<store, inp, result, outcome, occ_idx, events, adminOps, del_pc, alloc>>

\* 137-148: insert_many in the session and commit
TxnCommit(r) ==
  LET i == inp[r]
      occ_docs == {OccDoc(r, i, nights(i)[k]) : k \in 1..Len(nights(i))}
  IN /\ pc[r] = "txn"
     /\ \A d \in occ_docs : ~Duplicate(occupancies, d)
     /\ bookings' = [bookings EXCEPT ![r] = BookingDoc(i)]
     /\ occupancies' = occupancies \cup occ_docs
     /\ pc' = [pc EXCEPT ![r] = "publish"]
     /\ UNCHANGED <<locks, inp, result, outcome, occ_idx, events, adminOps, del_pc, path, alloc>>

\* mutant: the booking is inserted outside the session and survives the abort
TxnDuplicateKeepsBooking(r) ==
  LET i == inp[r]
      occ_docs == {OccDoc(r, i, nights(i)[k]) : k \in 1..Len(nights(i))}
  IN /\ pc[r] = "txn"
     /\ \E d \in occ_docs : Duplicate(occupancies, d)
     /\ bookings' = [bookings EXCEPT ![r] = BookingDoc(i)]
     /\ Finish(r, "Conflict")
     /\ UNCHANGED <<occupancies, locks, inp, result, occ_idx, events, adminOps, del_pc, path, alloc>>

\* 149-150: DuplicateKeyError aborts the transaction, 409
TxnDuplicate(r) ==
  LET i == inp[r]
      occ_docs == {OccDoc(r, i, nights(i)[k]) : k \in 1..Len(nights(i))}
  IN /\ pc[r] = "txn"
     /\ \E d \in occ_docs : Duplicate(occupancies, d)
     /\ Finish(r, "Conflict")
     /\ UNCHANGED <<store, inp, result, occ_idx, events, adminOps, del_pc, path, alloc>>

\* 131 and 151-159: no client with sessions, or the transaction failed for
\* another reason (transactions unsupported, write conflict): fall back
Fallback(r) ==
  /\ pc[r] \in {"reserve", "txn"}
  /\ pc' = [pc EXCEPT ![r] = "acquire"]
  /\ path' = [path EXCEPT ![r] = "lock"]
  /\ UNCHANGED <<store, inp, result, outcome, occ_idx, events, adminOps, del_pc, alloc>>

(***************************************************************************)
(* The distributed lock (lib/locks.py): one document per key with the      *)
(* owner's token and an expiry.  The owner token of a request (uuid4) is   *)
(* the request's number.  expired says that the lock's ttl has elapsed.    *)
(***************************************************************************)
\* mutant: acquire never finds the key taken
HeldNever(key) == FALSE

\* mutant: acquire does not look at the expiry of the stored lock
HeldEvenExpired(key) == \E l \in locks : l.key = key

\* a lock document of the key is stored and its ttl has not elapsed
Held(key) == \E l \in locks : l.key = key /\ ~l.expired

\* acquire_lock succeeds: insert if absent, replace if expired
LocksAfterAcquire(key, owner) ==
  {l \in locks : l.key # key} \cup {[key |-> key, owner |-> owner, expired |-> FALSE]}

\* mutant: release deletes the lock of the key whoever owns it
LocksAfterReleaseAnyOwner(key, owner) == {l \in locks : l.key # key}

\* release_lock: delete the document only if the owner token matches
LocksAfterRelease(key, owner) ==
  {l \in locks : ~(l.key = key /\ l.owner = owner)}

(***************************************************************************)
(* The lock-fallback path, bookings.py 162-199.                            *)
(***************************************************************************)
\* 163: acquire_lock returns the owner token
AcquireLock(r) ==
  /\ pc[r] = "acquire"
  /\ ~Held(lock_key(inp[r]))
  /\ locks' = LocksAfterAcquire(lock_key(inp[r]), r)
  /\ pc' = [pc EXCEPT ![r] = "check"]
  /\ UNCHANGED <<bookings, occupancies, inp, result, outcome, occ_idx, events,
                 adminOps, del_pc, path, alloc>>

\* mutant: the request goes on without the lock when acquire_lock returns None
AcquireTimeoutIgnored(r) ==
  /\ pc[r] = "acquire"
  /\ Held(lock_key(inp[r]))
  /\ pc' = [pc EXCEPT ![r] = "check"]
  /\ UNCHANGED <<store, inp, result, outcome, occ_idx, events, adminOps, del_pc, path, alloc>>

\* 163-165: the lock stayed held until the timeout, acquire_lock returns
\* None, 409
AcquireTimeout(r) ==
  /\ pc[r] = "acquire"
  /\ Held(lock_key(inp[r]))
  /\ Finish(r, "Conflict")
  /\ UNCHANGED <<store, inp, result, occ_idx, events, adminOps, del_pc, path, alloc>>

\* mutant: the bounds of the overlap query are not strict
OverlapsClosed(doc, i) ==
  /\ doc.status \notin {"absent", "cancelled"}
  /\ doc.accommodation_id = i.acc
  /\ doc.check_in <= i.check_out
  /\ doc.check_out >= i.check_in

\* 167-172: the filter of the inline overlap query
Overlaps(doc, i) ==
  /\ doc.status \notin {"absent", "cancelled"}
  /\ doc.accommodation_id = i.acc
  /\ doc.check_in < i.check_out
  /\ doc.check_out > i.check_in

\* 167-174: overlap found raises 409 (the finally block releases the lock)
OverlapCheck(r) ==
  /\ pc[r] = "check"
  /\ IF \E b \in Reqs : Overlaps(bookings[b], inp[r])
       THEN /\ result' = [result EXCEPT ![r] = "Conflict"]
            /\ pc' = [pc EXCEPT ![r] = "release"]
       ELSE /\ pc' = [pc EXCEPT ![r] = "insert"]
            /\ UNCHANGED result
  /\ UNCHANGED <<store, inp, outcome, occ_idx, events, adminOps, del_pc, path, alloc>>

\* 176-186: insert_one, then build occ_docs
InsertBooking(r) ==
  /\ pc[r] = "insert"
  /\ bookings' = [bookings EXCEPT ![r] = BookingDoc(inp[r])]
  /\ occ_idx' = [occ_idx EXCEPT ![r] = 0]
  /\ pc' = [pc EXCEPT ![r] = IF nights(inp[r]) = <<>> THEN "find" ELSE "occ"]
  /\ UNCHANGED <<occupancies, locks, inp, result, outcome, events, adminOps, del_pc, path, alloc>>

\* 188-189: insert_many(ordered=True) outside a transaction writes the
\* documents one by one and stops at the first DuplicateKeyError
InsertOccupancy(r) ==
  LET i == inp[r]
      doc == OccDoc(r, i, nights(i)[occ_idx[r] + 1])
  IN /\ pc[r] = "occ"
     /\ IF Duplicate(occupancies, doc)
          THEN /\ pc' = [pc EXCEPT ![r] = "rollback"]
               /\ UNCHANGED <<occupancies, occ_idx>>
          ELSE /\ occupancies' = occupancies \cup {doc}
               /\ occ_idx' = [occ_idx EXCEPT ![r] = @ + 1]
               /\ pc' = [pc EXCEPT ![r] =
                           IF occ_idx[r] + 1 = Len(nights(i)) THEN "find" ELSE "occ"]
     /\ UNCHANGED <<bookings, locks, inp, result, outcome, events, adminOps, del_pc, path, alloc>>

\* mutant: the 409 is raised without deleting the booking
RollbackKeepsBooking(r) ==
  /\ pc[r] = "rollback"
  /\ result' = [result EXCEPT ![r] = "Conflict"]
  /\ pc' = [pc EXCEPT ![r] = "release"]
  /\ UNCHANGED <<store, inp, outcome, occ_idx, events, adminOps, del_pc, path, alloc>>

\* 190-193: roll the booking back and raise 409
Rollback(r) ==
  /\ pc[r] = "rollback"
  /\ bookings' = [bookings EXCEPT ![r] = NoDoc]
  /\ result' = [result EXCEPT ![r] = "Conflict"]
  /\ pc' = [pc EXCEPT ![r] = "release"]
  /\ UNCHANGED <<occupancies, locks, inp, outcome, occ_idx, events, adminOps, del_pc, path, alloc>>

\* 194: created = find_one(booking_id); None when the document was deleted
\* meanwhile, and then no booking is returned
FindCreated(r) ==
  /\ pc[r] = "find"
  /\ result' = [result EXCEPT ![r] =
                  IF bookings[r] = NoDoc THEN "Error" ELSE "Committed"]
  /\ pc' = [pc EXCEPT ![r] = "release"]
  /\ UNCHANGED <<store, inp, outcome, occ_idx, events, adminOps, del_pc, path, alloc>>

\* mutant: the event is published from the finally block, whatever the result
ReleaseLockThenPublish(r) ==
  /\ pc[r] = "release"
  /\ locks' = LocksAfterRelease(lock_key(inp[r]), r)
  /\ pc' = [pc EXCEPT ![r] = "publish"]
  /\ UNCHANGED <<bookings, occupancies, inp, result, outcome, occ_idx, events, adminOps, del_pc, path, alloc>>

\* mutant: the handler returns without calling release_lock
ReleaseLockSkipped(r) ==
  /\ pc[r] = "release"
  /\ IF result[r] = "Committed"
       THEN pc' = [pc EXCEPT ![r] = "publish"] /\ UNCHANGED outcome
       ELSE Finish(r, result[r])
  /\ UNCHANGED <<store, inp, result, occ_idx, events, adminOps, del_pc, path, alloc>>

\* 195-199: finally: release_lock with the request's key and owner token
ReleaseLock(r) ==
  /\ pc[r] = "release"
  /\ locks' = LocksAfterRelease(lock_key(inp[r]), r)
  /\ IF result[r] = "Committed"
       THEN pc' = [pc EXCEPT ![r] = "publish"] /\ UNCHANGED outcome
       ELSE Finish(r, result[r])
  /\ UNCHANGED <<bookings, occupancies, inp, result, occ_idx, events, adminOps, del_pc, path, alloc>>

\* mutant: a failure of publish_event fails the request
PublishEventFails(r) ==
  /\ pc[r] = "publish"
  /\ \E delivered \in BOOLEAN :
       /\ events' = IF delivered THEN events \cup {r} ELSE events
       /\ Finish(r, IF delivered THEN "Committed" ELSE "Error")
  /\ UNCHANGED <<store, inp, result, occ_idx, adminOps, del_pc, path, alloc>>

\* 200-206: publish_event may fail, the failure is swallowed
PublishEvent(r) ==
  /\ pc[r] = "publish"
  /\ \E delivered \in BOOLEAN :
       events' = IF delivered THEN events \cup {r} ELSE events
  /\ Finish(r, "Committed")
  /\ UNCHANGED <<store, inp, result, occ_idx, adminOps, del_pc, path, alloc>>

(***************************************************************************)
(* Time and the reaper.                                                    *)
(***************************************************************************)
\* the ttl (30 s) of a lock elapses
Expire ==
  /\ \E l \in locks :
       /\ ~l.expired
       /\ locks' = (locks \ {l}) \cup {[l EXCEPT !.expired = TRUE]}
  /\ UNCHANGED <<bookings, occupancies, pc, inp, result, outcome, occ_idx, events,
                 adminOps, del_pc, path, alloc>>

\* main.py 52-60: a starting server process deletes the expired locks
Reaper ==
  /\ \E l \in locks : l.expired
  /\ locks' = {l \in locks : ~l.expired}
  /\ UNCHANGED <<bookings, occupancies, pc, inp, result, outcome, occ_idx, events,
                 adminOps, del_pc, path, alloc>>

(***************************************************************************)
(* POST /api/bookings, api_compat.py 766-820.  The function ends after the *)
(* loop over the selected cottages: the allocation, the pricing, the       *)
(* insert and the event (api_compat.py 903-994) stand after the return     *)
(* statement of debug_counts and are never run.                            *)
(***************************************************************************)
\* 774-791: dates, guest count, guest email
ApiValid(i) ==
  /\ Parses(i.check_in) /\ Parses(i.check_out)
  /\ ~(i.check_out <= i.check_in)
  /\ i.guests # <<>> /\ ~(i.guests[1] <= 0)
  /\ i.email

ApiValidate(r) ==
  /\ pc[r] = "idle"
  /\ \E i \in ApiInputs :
       /\ inp' = [inp EXCEPT ![r] = i]
       /\ IF ApiValid(i)
            THEN pc' = [pc EXCEPT ![r] = "api_select"] /\ UNCHANGED outcome
            ELSE Finish(r, "Rejected")
  /\ UNCHANGED <<store, result, occ_idx, events, adminOps, del_pc, path, alloc>>

\* the allocated_cottages of a booking document: the documents inserted by
\* POST /bookings carry none
AllocatedCottages(doc) == {}

\* 812-817: a busy booking holding the cottage in the requested range
CottageBusy(sid, i) ==
  \E b \in Reqs :
    /\ sid \in AllocatedCottages(bookings[b])
    /\ bookings[b].status \in {"confirmed", "pending"}
    /\ bookings[b].check_in < i.check_out
    /\ bookings[b].check_out > i.check_in

\* 793-820: every selected cottage must exist and be free; then the
\* function returns None (201 with an empty body), nothing is written
ApiSelect(r) ==
  LET i == inp[r] IN
  /\ pc[r] = "api_select"
  /\ IF \E k \in 1..Len(i.selected) :
          i.selected[k] \notin RoomIds \/ CottageBusy(i.selected[k], i)
       THEN Finish(r, "Rejected")
       ELSE Finish(r, "NoResponse")
  /\ UNCHANGED <<store, inp, result, occ_idx, events, adminOps, del_pc, path, alloc>>

(***************************************************************************)
(* PUT /bookings/{id}, DELETE /bookings/{id}, POST /bookings/{id}/release. *)
(***************************************************************************)
Statuses == {"pending", "confirmed", "cancelled"}

\* the bodies of the PUT requests of the model: a status, and either the
\* stored dates or the widest range
UpdateDocs(doc) ==
  {[doc EXCEPT !.status = st] : st \in Statuses}
    \cup {[doc EXCEPT !.check_in = 0, !.check_out = Midnight(MaxDay)]}

\* bookings.py 209-223: update_one $set booking.dict(), no check at all
UpdateBooking(b) ==
  /\ adminOps < MaxAdminOps
  /\ bookings[b] # NoDoc
  /\ \E d \in UpdateDocs(bookings[b]) \ {bookings[b]} :
       bookings' = [bookings EXCEPT ![b] = d]
  /\ adminOps' = adminOps + 1
  /\ UNCHANGED <<occupancies, locks, pc, inp, result, outcome, occ_idx, events, del_pc, path, alloc>>

\* bookings.py 226-242: the booking is found, its occupancies are deleted
DeleteOccupancies(b) ==
  /\ adminOps < MaxAdminOps
  /\ del_pc = 0
  /\ bookings[b] # NoDoc
  /\ occupancies' = {o \in occupancies : o.booking_id # b}
  /\ del_pc' = b
  /\ adminOps' = adminOps + 1
  /\ UNCHANGED <<bookings, locks, pc, inp, result, outcome, occ_idx, events, path, alloc>>

\* bookings.py 243-246: delete_one
DeleteBooking(b) ==
  /\ del_pc = b
  /\ bookings' = [bookings EXCEPT ![b] = NoDoc]
  /\ del_pc' = 0
  /\ UNCHANGED <<occupancies, locks, pc, inp, result, outcome, occ_idx, events, adminOps, path, alloc>>

\* bookings.py 270-279: delete_many on the booking id
ReleaseOccupancies(b) ==
  /\ adminOps < MaxAdminOps
  /\ \E o \in occupancies : o.booking_id = b
  /\ occupancies' = {o \in occupancies : o.booking_id # b}
  /\ adminOps' = adminOps + 1
  /\ UNCHANGED <<bookings, locks, pc, inp, result, outcome, occ_idx, events, del_pc, path, alloc>>

(***************************************************************************)
(* The specification.                                                      *)
(***************************************************************************)
Create(r) ==
  \/ TxnInsertBooking(r)
  \/ TxnCommit(r)
  \/ TxnDuplicate(r)
  \/ Fallback(r)
  \/ AcquireLock(r)
  \/ AcquireTimeout(r)
  \/ OverlapCheck(r)
  \/ InsertBooking(r)
  \/ InsertOccupancy(r)
  \/ Rollback(r)
  \/ FindCreated(r)
  \/ ReleaseLock(r)
  \/ PublishEvent(r)

Admin ==
  \/ \E b \in Reqs :
       \/ UpdateBooking(b)
       \/ DeleteOccupancies(b)
       \/ DeleteBooking(b)
       \/ ReleaseOccupancies(b)
  \/ Expire
  \/ Reaper

\* concurrent POST /bookings requests
Next ==
  \/ \E r \in Reqs : Validate(r) \/ Create(r)
  \/ Admin

Spec == Init /\ [][Next]_vars

\* the first request comes through either entry point with any input, the
\* others are POST /bookings requests for the first nights
NextEntry ==
  \/ ValidateWide(1) \/ ApiValidate(1) \/ ApiSelect(1)
  \/ \E r \in Reqs \ {1} : ValidateOther(r)
  \/ \E r \in Reqs : Create(r)
  \/ Admin

SpecEntry == Init /\ [][NextEntry]_vars

(***************************************************************************)
(* Calls of allocate_rooms.                                                *)
(***************************************************************************)
NoRoom ==
  [id |-> 0, slug |-> Absent, type |-> Absent, price_per_night |-> Absent,
   capacity_adults |-> Absent, capacity_children |-> Absent, capacity |-> Absent,
   sleeps |-> Absent, bedConfig |-> <<>>, extra_beds |-> Absent,
   extra_bedding |-> Absent]

\* A(cap 2, price 10), B(3, 8), C(5, 20), D(1, 1), E(5, 20), F(2, 5): the
\* ways of stating a capacity; E ties with C in capacity and price, F ties
\* with A in capacity only
Catalog ==
  { [NoRoom EXCEPT !.id = 1, !.type = <<"villa", "lower">>, !.price_per_night = PyInt(10),
                   !.capacity = PyInt(2), !.extra_beds = PyInt(1)],
    [NoRoom EXCEPT !.id = 2, !.type = <<"suite", "upper">>, !.price_per_night = PyInt(8),
                   !.sleeps = PyInt(3)],
    [NoRoom EXCEPT !.id = 3, !.type = <<"villa", "upper">>, !.price_per_night = PyInt(20),
                   !.capacity_adults = PyInt(3), !.capacity_children = PyInt(2)],
    [NoRoom EXCEPT !.id = 4, !.slug = <<"suite", "lower">>, !.price_per_night = PyInt(1),
                   !.bedConfig = <<PyNone>>],
    [NoRoom EXCEPT !.id = 5, !.price_per_night = PyInt(20), !.capacity = PyInt(5)],
    [NoRoom EXCEPT !.id = 6, !.slug = <<"villa", "upper">>, !.price_per_night = PyInt(5),
                   !.sleeps = PyInt(2)] }

CandidateLists ==
  {c \in UNION {[1..n -> Catalog] : n \in 0..MaxCands} :
     \A j, k \in DOMAIN c : j # k => c[j] # c[k]}

DefaultMaxK == 4

PrefChoices == {{}, {<<"villa", "upper">>}, {<<"tent", "lower">>}}

AllocInit ==
  /\ bookings = [b \in Reqs |-> NoDoc]
  /\ occupancies = {}
  /\ locks = {}
  /\ pc = [r \in Reqs |-> "idle"]
  /\ inp = [r \in Reqs |-> NoInput]
  /\ result = [r \in Reqs |-> "none"]
  /\ outcome = [r \in Reqs |-> "none"]
  /\ occ_idx = [r \in Reqs |-> 0]
  /\ events = {}
  /\ adminOps = 0
  /\ del_pc = 0
  /\ path = [r \in Reqs |-> "none"]
  /\ alloc = NoCall

booking_vars == <<bookings, occupancies, locks, pc, inp, result, outcome, occ_idx,
                  events, adminOps, del_pc, path>>

AllocCall ==
  /\ alloc.at = "idle"
  /\ \E c \in CandidateLists, g \in 0..MaxGuests, x \in BOOLEAN, t \in PrefChoices,
        m \in {2, DefaultMaxK} :
       alloc' = [NoCall EXCEPT !.at = "called", !.candidates = c, !.guests = g,
                               !.allow_extra_beds = x, !.preferred_room_types = t,
                               !.max_k = m]
  /\ UNCHANGED booking_vars

AllocReturn ==
  /\ alloc.at = "called"
  /\ alloc' = [alloc EXCEPT !.at = "returned",
                            !.result = allocate_rooms(alloc.candidates, alloc.guests,
                                                      alloc.allow_extra_beds,
                                                      alloc.preferred_room_types,
                                                      alloc.max_k)]
  /\ UNCHANGED booking_vars

NextAlloc == AllocCall \/ AllocReturn

SpecAlloc == AllocInit /\ [][NextAlloc]_vars

(***************************************************************************)
(* Calls of _room_capacity on room documents whose fields are absent, None, *)
(* an integer or a string that is no number.  A bedConfig entry is its      *)
(* count.  The room is passed as the one candidate of the call and the     *)
(* capacity comes back as the one element of the result.                   *)
(***************************************************************************)
CapacityRooms ==
  {[NoRoom EXCEPT !.id = 1, !.capacity_adults = a, !.capacity_children = c,
                  !.capacity = cap, !.sleeps = s, !.bedConfig = bc,
                  !.extra_beds = eb, !.extra_bedding = ebg] :
     a \in {Absent, PyNone, PyInt(2), PyStr},
     c \in {Absent, PyInt(1), PyStr},
     cap \in {Absent, PyInt(4), PyStr},
     s \in {Absent, PyInt(3)},
     bc \in {<<>>, <<Absent, PyInt(2)>>, <<PyStr, PyInt(0)>>},
     eb \in {Absent, PyNone, PyInt(1), PyStr},
     ebg \in {Absent, PyInt(2)}}

CapCall ==
  /\ alloc.at = "idle"
  /\ \E room \in CapacityRooms, x \in BOOLEAN :
       alloc' = [NoCall EXCEPT !.at = "cap_called", !.candidates = <<room>>,
                               !.allow_extra_beds = x]
  /\ UNCHANGED booking_vars

CapReturn ==
  /\ alloc.at = "cap_called"
  /\ alloc' = [alloc EXCEPT !.at = "cap_returned",
                            !.result = <<room_capacity(alloc.candidates[1],
                                                       alloc.allow_extra_beds)>>]
  /\ UNCHANGED booking_vars

NextCap == CapCall \/ CapReturn

SpecCap == AllocInit /\ [][NextCap]_vars

(***************************************************************************)
(* Properties.                                                             *)
(***************************************************************************)
OccOf(r) == {o \in occupancies : o.booking_id = r}

Wrote(r) == bookings[r] # NoDoc \/ OccOf(r) # {}

Submitted(r) == inp[r].entry # "none"

\* the calendar nights of a stay: check-in date to check-out date exclusive
NightSet(i) == {Midnight(d) : d \in DateOf(i.check_in)..(DateOf(i.check_out) - 1)}

RangesOverlap(i, j) == i.check_in < j.check_out /\ j.check_in < i.check_out

\* all requests asked for the same accommodation with pairwise overlapping
\* whole-day ranges, all have answered, nothing else touched the bookings
ConcurrentOverlapping ==
  /\ adminOps = 0
  /\ \A r \in Reqs :
       /\ pc[r] = "done"
       /\ inp[r].entry = "bookings"
       /\ DatesValid(inp[r]) /\ CapacityOk(inp[r])
       /\ Parses(inp[r].check_in) /\ Parses(inp[r].check_out)
  /\ \A r1, r2 \in Reqs :
       /\ inp[r1].acc = inp[r2].acc
       /\ RangesOverlap(inp[r1], inp[r2])

\* C1: N concurrent createBooking requests for one accommodation with
\* pairwise overlapping ranges: exactly one ends Committed, the others end
\* in Conflict, and every occupancy record of the requested nights belongs
\* to the committed booking, at most one per night.
C1_NoDoubleBooking ==
  ConcurrentOverlapping =>
    /\ Cardinality({r \in Reqs : outcome[r] = "Committed"}) = 1
    /\ \A r \in Reqs : outcome[r] \in {"Committed", "Conflict"}
    /\ \A o \in occupancies : outcome[o.booking_id] = "Committed"
    /\ \A o1, o2 \in occupancies :
         (o1.accommodation_id = o2.accommodation_id /\ o1.date = o2.date) => o1 = o2

C1_Witness ==
  /\ ConcurrentOverlapping
  /\ \E r \in Reqs : outcome[r] = "Committed"
  /\ \E r \in Reqs : outcome[r] = "Conflict"

\* C2: in every reachable state, for each accommodation and each calendar
\* night at most one occupancy record exists whose booking is not cancelled.
C2_OneOccupancyPerNight ==
  \A a \in Accs, d \in Days :
    Cardinality({o \in occupancies :
                   /\ o.accommodation_id = a
                   /\ o.date = Midnight(d)
                   /\ bookings[o.booking_id].status # "cancelled"}) <= 1

\* two requests asked for the same night of the same accommodation, one
\* holds its occupancy record, after an update, delete or release call
C2_Witness ==
  /\ adminOps > 0
  /\ \E r1, r2 \in Reqs :
       /\ r1 # r2
       /\ inp[r1].acc = inp[r2].acc
       /\ NightSet(inp[r1]) \cap NightSet(inp[r2]) # {}
       /\ pc[r1] = "done" /\ pc[r2] = "done"
       /\ OccOf(r1) # {}

\* C3: whenever a createBooking request ends in Conflict, neither its
\* booking document nor any of its occupancy records is in the store.
C3_ConflictLeavesNothing ==
  \A r \in Reqs : outcome[r] = "Conflict" => ~Wrote(r)

TxnDup(r) ==
  \E k \in 1..Len(nights(inp[r])) :
    Duplicate(occupancies, OccDoc(r, inp[r], nights(inp[r])[k]))

C4_TxnStep ==
  \A r \in Reqs :
    pc[r] = "txn" =>
      IF pc'[r] = "publish"
        THEN /\ ~TxnDup(r)
             /\ bookings'[r] = BookingDoc(inp[r])
             /\ {o.date : o \in OccOf(r)'} = NightSet(inp[r])
        ELSE /\ ~Wrote(r)'
             /\ pc'[r] = "done" => (TxnDup(r) /\ outcome'[r] = "Conflict")

\* C4: in the transactional path the booking and its occupancy records
\* become visible together, and only when no night is taken; when a night
\* is taken the request ends in Conflict and none of its documents is
\* visible then or later.
C4_TxnAtomic ==
  /\ [](\A r \in Reqs :
          (path[r] = "txn" /\ (pc[r] = "txn" \/ outcome[r] = "Conflict")) => ~Wrote(r))
  /\ [][C4_TxnStep]_vars

C4_Witness ==
  \E r \in Reqs : path[r] = "txn" /\ outcome[r] = "Conflict" /\ Len(nights(inp[r])) > 1

\* C6: a committed booking from date D1 to date D2 has exactly D2 - D1
\* occupancy records, one per date from D1 inclusive to D2 exclusive (as
\* long as no delete or release call removed them).
C6_OneRecordPerNight ==
  \A r \in Reqs :
    (outcome[r] = "Committed" /\ adminOps = 0) =>
      /\ {o.date : o \in OccOf(r)} = NightSet(inp[r])
      /\ Cardinality(OccOf(r)) = DateOf(inp[r].check_out) - DateOf(inp[r].check_in)
      /\ \A o \in OccOf(r) :
           /\ o.accommodation_id = inp[r].acc
           /\ o.date # Midnight(DateOf(inp[r].check_out))

\* a stay from date 0 to date 2 committed with the records of dates 0 and 1
C6_Witness ==
  \E r \in Reqs :
    /\ outcome[r] = "Committed" /\ adminOps = 0
    /\ inp[r].check_in = Midnight(0) /\ inp[r].check_out = Midnight(2)
    /\ {o.date : o \in OccOf(r)} = {Midnight(0), Midnight(1)}

LocksOf(r) == {l \in locks : l.owner = r}

\* C5: a createBooking request whose check-out is equal to or earlier than
\* its check-in is Rejected and writes no booking, occupancy or lock
\* record, on both entry points.
C5_BadDatesRejected ==
  \A r \in Reqs :
    (Submitted(r) /\ inp[r].check_out <= inp[r].check_in) =>
      /\ outcome[r] = "Rejected"
      /\ ~Wrote(r)
      /\ LocksOf(r) = {}

\* a POST /bookings request with equal time stamps was rejected while
\* another request holds a booking
C5_Witness ==
  \E r \in Reqs :
    /\ inp[r].entry = "bookings"
    /\ inp[r].check_out = inp[r].check_in
    /\ outcome[r] = "Rejected"
    /\ \E q \in Reqs : Wrote(q)

\* an explicit guest count that is zero or negative
BadGuests(i) == i.guests # <<>> /\ i.guests[1] <= 0

\* C7: a createBooking request with a non-positive guest count, or
\* without a guest email, ends Rejected and writes no booking or
\* occupancy record, on every entry point.
C7_BadGuestsRejected ==
  \A r \in Reqs :
    (Submitted(r) /\ (BadGuests(inp[r]) \/ ~inp[r].email)) =>
      /\ pc[r] = "done" => outcome[r] = "Rejected"
      /\ ~Wrote(r)

\* C8: a POST /api/bookings request that passes validation, with its
\* selected rooms present and free, persists one pending booking and
\* answers with it.
C8_ApiPersistsBooking ==
  \A r \in Reqs :
    ( /\ inp[r].entry = "api"
      /\ ApiValid(inp[r])
      /\ \A k \in 1..Len(inp[r].selected) :
            inp[r].selected[k] \in RoomIds /\ ~CottageBusy(inp[r].selected[k], inp[r])
      /\ pc[r] = "done" ) =>
      /\ outcome[r] = "Committed"
      /\ bookings[r].status = "pending"

(***************************************************************************)
(* Properties of allocate_rooms, stated on the rooms the call considers    *)
(* (the candidates after the preference filter).                           *)
(***************************************************************************)
Considered == Filtered(alloc.candidates, alloc.preferred_room_types)

CapOf(k) == room_capacity(Considered[k], alloc.allow_extra_beds)

RECURSIVE SetSum(_, _)
SetSum(S, field) ==
  IF S = {} THEN 0
  ELSE LET k == CHOOSE x \in S : TRUE
       IN (IF field = "cap" THEN CapOf(k) ELSE PriceOf(Considered[k]))
            + SetSum(S \ {k}, field)

SingleFits == {k \in 1..Len(Considered) : CapOf(k) >= alloc.guests}

CandidateIds(c) == [k \in 1..Len(c) |-> c[k].id]

\* C9: for a positive guest count, whenever some room alone holds the
\* guests the result is one room, a cheapest of the rooms that alone hold
\* the guests, whatever the combinations cost.
C9_SingleRoomPreferred ==
  (alloc.at = "returned" /\ alloc.guests > 0 /\ SingleFits # {}) =>
    /\ Len(alloc.result) = 1
    /\ \E k \in SingleFits :
         /\ Considered[k].id = alloc.result[1]
         /\ \A j \in SingleFits : PriceOf(Considered[k]) <= PriceOf(Considered[j])

\* the same without the condition on the guest count: a call for 0 guests
\* returns the empty list although every room holds 0 guests
C9_AnyGuestCount ==
  (alloc.at = "returned" /\ SingleFits # {}) =>
    /\ Len(alloc.result) = 1
    /\ \E k \in SingleFits :
         /\ Considered[k].id = alloc.result[1]
         /\ \A j \in SingleFits : PriceOf(Considered[k]) <= PriceOf(Considered[j])

\* rooms A, B, C and 5 guests give [C], though A and B together cost less
C9_Witness ==
  /\ alloc.at = "returned"
  /\ CandidateIds(alloc.candidates) = <<1, 2, 3>>
  /\ alloc.guests = 5 /\ ~alloc.allow_extra_beds /\ alloc.preferred_room_types = {}
  /\ SetSum({1, 2}, "cap") >= 5 /\ SetSum({1, 2}, "price") < PriceOf(Considered[3])
  /\ alloc.result = <<3>>

\* the valid combinations of k rooms
ValidCombos(k) ==
  {S \in SUBSET (1..Len(Considered)) :
     Cardinality(S) = k /\ SetSum(S, "cap") >= alloc.guests}

ValidSizes ==
  {k \in 2..(IF alloc.max_k < Len(Considered) THEN alloc.max_k ELSE Len(Considered)) :
     ValidCombos(k) # {}}

\* C10: when no room alone holds the guests and some combination of 2 to
\* min(max_k, number of rooms) rooms does, the result is a combination of
\* the smallest such size, the cheapest of the valid combinations of that
\* size; a larger combination is never returned, even if cheaper.
C10_SmallestCombination ==
  (alloc.at = "returned" /\ SingleFits = {} /\ ValidSizes # {}) =>
    LET k == CHOOSE x \in ValidSizes : \A y \in ValidSizes : x <= y
    IN /\ Len(alloc.result) = k
       /\ \E S \in ValidCombos(k) :
            /\ {alloc.result[j] : j \in 1..k} = {Considered[x].id : x \in S}
            /\ \A T \in ValidCombos(k) : SetSum(S, "price") <= SetSum(T, "price")

\* rooms A, B, D, C and 6 guests give [D, C] (price 21), though A, B and D
\* together hold 6 guests for 19
C10_Witness ==
  /\ alloc.at = "returned"
  /\ CandidateIds(alloc.candidates) = <<1, 2, 4, 3>>
  /\ alloc.guests = 6 /\ ~alloc.allow_extra_beds /\ alloc.preferred_room_types = {}
  /\ alloc.max_k = DefaultMaxK
  /\ SetSum({1, 2, 3}, "cap") >= 6
  /\ SetSum({1, 2, 3}, "price") < SetSum({3, 4}, "price")
  /\ alloc.result = <<4, 3>>

(***************************************************************************)
(* Properties of the distributed lock.                                     *)
(***************************************************************************)
LockKeys == {lock_key(i) : i \in BookingsInputs \cup WideBookingsInputs}

Unexpired(ls, key) == {l \in ls : l.key = key /\ ~l.expired}

\* the steps of a request between acquire_lock and release_lock
CriticalSection == {"check", "insert", "occ", "rollback", "find", "release"}

\* no step hands a key whose lock is unexpired to another owner
C11_NoTakeOver ==
  \A l \in locks :
    ~l.expired =>
      \A m \in Unexpired(locks', l.key) : m.owner = l.owner

\* C11: in every reachable state at most one unexpired lock document exists
\* per key, and no acquire takes a key over from an owner whose lock is
\* unexpired: at most one caller at a time holds an unexpired lock of a key.
C11_OneLockPerKey ==
  /\ [](\A key \in LockKeys : Cardinality(Unexpired(locks, key)) <= 1)
  /\ [][C11_NoTakeOver]_vars

\* a request waits in acquire_lock for the key another request holds
C11_Witness ==
  \E r1, r2 \in Reqs :
    /\ r1 # r2
    /\ pc[r1] \in CriticalSection /\ pc[r2] = "acquire"
    /\ lock_key(inp[r1]) = lock_key(inp[r2])
    /\ \E l \in locks : l.key = lock_key(inp[r1]) /\ l.owner = r1 /\ ~l.expired

\* a step in which request r leaves its finally block
Releases(r) == pc[r] = "release" /\ pc'[r] # "release"

C12_ReleaseStep ==
  \A r \in Reqs :
    Releases(r) =>
      /\ \A l \in locks : (l.key = lock_key(inp[r]) /\ l.owner = r) => l \notin locks'
      /\ \A l \in locks : l.owner # r => l \in locks'
      /\ locks' \subseteq locks

\* C12: release(key, owner) removes the lock only when the stored owner
\* equals the caller's token; otherwise the lock stays as it is, also when
\* the caller's lock expired and another owner acquired the key.
C12_ReleaseOnlyByOwner == [][C12_ReleaseStep]_vars

\* request r has released after request q acquired the key that r's expired
\* lock had held (r inserted its booking after q's overlap check), and q's
\* unexpired lock is still stored
C12_Witness ==
  \E r, q \in Reqs :
    /\ r # q /\ adminOps = 0
    /\ lock_key(inp[r]) = lock_key(inp[q])
    /\ path[r] = "lock" /\ pc[r] \in {"publish", "done"} /\ bookings[r] # NoDoc
    /\ pc[q] \in {"insert", "occ", "rollback", "find", "release"}
    /\ result[q] # "Conflict"
    /\ \E l \in locks : l.key = lock_key(inp[q]) /\ l.owner = q /\ ~l.expired

C13_AcquireStep ==
  \A r \in Reqs :
    (pc[r] = "acquire" /\ pc'[r] = "check") =>
      /\ Unexpired(locks, lock_key(inp[r])) = {}
      /\ Unexpired(locks', lock_key(inp[r])) =
           {[key |-> lock_key(inp[r]), owner |-> r, expired |-> FALSE]}

\* C13: a request in acquire_lock can take the key exactly when no
\* unexpired lock of the key is stored: an abandoned lock can be taken
\* once its ttl has elapsed, whether or not the reaper deleted it, and
\* not before.
C13_ExpiredLockAcquirable ==
  /\ [](\A r \in Reqs :
          pc[r] = "acquire" =>
            ((ENABLED AcquireLock(r)) <=> Unexpired(locks, lock_key(inp[r])) = {}))
  /\ [][C13_AcquireStep]_vars

\* request r holds the key while the expired lock's owner q, which never
\* released, is still in its critical section
C13_Witness ==
  \E r, q \in Reqs :
    /\ r # q
    /\ lock_key(inp[r]) = lock_key(inp[q])
    /\ pc[q] \in CriticalSection \ {"release"} /\ pc[r] = "check"
    /\ \E l \in locks : l.key = lock_key(inp[r]) /\ l.owner = r /\ ~l.expired

(***************************************************************************)
(* Properties of the lock-fallback path and of the event.                  *)
(***************************************************************************)
OwnsLock(ls, r) ==
  \E l \in ls : l.key = lock_key(inp[r]) /\ l.owner = r /\ ~l.expired

C14_Step ==
  \A r \in Reqs :
    /\ (pc[r] = "acquire" /\ pc'[r] = "done") =>
         /\ Unexpired(locks, lock_key(inp[r])) # {}
         /\ outcome'[r] = "Conflict"
         /\ ~Wrote(r)'
         /\ bookings' = bookings /\ occupancies' = occupancies
    /\ (pc[r] = "acquire" /\ pc'[r] \notin {"acquire", "done"}) =>
         (pc'[r] = "check" /\ OwnsLock(locks', r))
    /\ pc[r] = "done" =>
         /\ pc'[r] = "done" /\ outcome'[r] = outcome[r]
         /\ ~Wrote(r) => ~Wrote(r)'

\* C14: a request whose acquire_lock gives up (the key is held and
\* unexpired) ends in Conflict without having written a booking or an
\* occupancy record, it enters the critical section only with the lock, and
\* a finished request is never run again.
C14_BusyIsConflict == [][C14_Step]_vars

\* request r was answered "busy" while request q, which has inserted
\* nothing yet, holds the key
C14_Witness ==
  \E r, q \in Reqs :
    /\ r # q /\ adminOps = 0
    /\ path[r] = "lock" /\ pc[r] = "done" /\ outcome[r] = "Conflict"
    /\ lock_key(inp[r]) = lock_key(inp[q])
    /\ pc[q] = "check" /\ OwnsLock(locks, q)
    /\ \A b \in Reqs : bookings[b] = NoDoc
    /\ occupancies = {}

C15_PublishStep ==
  \A r \in Reqs :
    (pc[r] = "publish" /\ pc'[r] # "publish") =>
      /\ pc'[r] = "done" /\ outcome'[r] = "Committed"
      /\ bookings' = bookings /\ occupancies' = occupancies

\* C15: whether or not publish_event fails, the request ends Committed and
\* the step writes nothing: a committed request whose event was not
\* published still has its booking and its occupancy records (as long as
\* no update, delete or release call touched them).
C15_PublishFailureHarmless ==
  /\ [](\A r \in Reqs :
          (pc[r] = "done" /\ outcome[r] = "Committed" /\ r \notin events /\ adminOps = 0) =>
            /\ bookings[r] = BookingDoc(inp[r])
            /\ {o.date : o \in OccOf(r)} = NightSet(inp[r]))
  /\ [][C15_PublishStep]_vars

\* a request ended Committed with its documents although its event was lost
C15_Witness ==
  \E r \in Reqs :
    /\ pc[r] = "done" /\ outcome[r] = "Committed" /\ r \notin events
    /\ bookings[r] # NoDoc /\ OccOf(r) # {}

(***************************************************************************)
(* Overlap, deletion and the critical section.                             *)
(***************************************************************************)
\* the overlap of the specification: strict bounds, status confirmed or pending
Busy(doc, i) ==
  /\ doc.status \in {"confirmed", "pending"}
  /\ doc.accommodation_id = i.acc
  /\ doc.check_in < i.check_out
  /\ doc.check_out > i.check_in

C16_CheckStep ==
  \A r \in Reqs :
    (pc[r] = "check" /\ pc'[r] # "check") =>
      IF \E b \in Reqs : Busy(bookings[b], inp[r])
        THEN pc'[r] = "release" /\ result'[r] = "Conflict"
        ELSE pc'[r] = "insert" /\ result'[r] = result[r]

\* C16: the inline overlap check ends a request in Conflict exactly when a
\* stored booking of the accommodation with status confirmed or pending
\* has check_in < the requested check_out and check_out > the requested
\* check_in; a stay that starts when a stored booking ends passes it.
C16_HalfOpenOverlap == [][C16_CheckStep]_vars

\* a stay beginning at the check-out of a committed booking was committed
\* through the overlap check
C16_Witness ==
  \E r, q \in Reqs :
    /\ r # q /\ adminOps = 0
    /\ inp[r].acc = inp[q].acc
    /\ inp[r].check_in = inp[q].check_out
    /\ path[r] = "lock" /\ outcome[r] = "Committed"
    /\ outcome[q] = "Committed"
    /\ bookings[r] # NoDoc /\ bookings[q] # NoDoc

\* the booking document of b was inserted and a DELETE call removed it
Deleted(b) ==
  /\ bookings[b] = NoDoc
  /\ \/ pc[b] \in {"occ", "find"}
     \/ result[b] \in {"Committed", "Error"}
     \/ outcome[b] \in {"Committed", "Error"}

\* C17: after a booking is deleted no occupancy record referencing it
\* remains.
C17_DeletedLeavesNoOccupancy ==
  \A b \in Reqs : Deleted(b) => OccOf(b) = {}

C18_Step ==
  \A r \in Reqs :
    /\ (pc[r] = "occ" /\ pc'[r] = "rollback") =>
         (bookings[r] # NoDoc \/ Deleted(r))
    /\ (pc[r] = "rollback" /\ pc'[r] # "rollback") =>
         /\ pc'[r] = "release" /\ result'[r] = "Conflict"
         /\ bookings'[r] = NoDoc
         /\ locks' = locks
    /\ (pc[r] = "release" /\ result[r] = "Conflict") =>
         /\ bookings[r] = NoDoc
         /\ pc'[r] # "release" => (pc'[r] = "done" /\ outcome'[r] = "Conflict")

Guarded == {"check", "insert", "occ"}

\* a range of whole days
WholeDays(i) == Parses(i.check_in) /\ Parses(i.check_out)

\* C19: two requests on the same accommodation whose date ranges (of whole
\* days) overlap are never both between the overlap check and the end of
\* their inserts.
C19_CriticalSectionsExclusive ==
  \A r1, r2 \in Reqs :
    ( /\ r1 # r2
      /\ inp[r1].acc = inp[r2].acc
      /\ WholeDays(inp[r1]) /\ WholeDays(inp[r2])
      /\ RangesOverlap(inp[r1], inp[r2]) ) =>
      ~(pc[r1] \in Guarded /\ pc[r2] \in Guarded)

C20_Step ==
  \A r \in Reqs :
    (pc[r] \in CriticalSection /\ pc'[r] \notin CriticalSection) =>
      /\ pc[r] = "release"
      /\ \A l \in locks' : ~(l.key = lock_key(inp[r]) /\ l.owner = r)

C21_EventStep ==
  events' # events =>
    \E r \in Reqs :
      /\ r \notin events /\ events' = events \cup {r}
      /\ pc[r] = "publish" /\ pc'[r] = "done"
      /\ outcome'[r] = "Committed"
      /\ result[r] \notin {"Conflict", "Error"}
      /\ adminOps = 0 => bookings[r] = BookingDoc(inp[r])

\* C21: bookings.created is published only in the last step of a request
\* that ends Committed, after its booking document was inserted, and once
\* per request: a request that ended in Conflict or Rejected has no event.
C21_EventOnlyWhenCommitted ==
  /\ [](\A r \in Reqs :
          r \in events => (pc[r] = "done" /\ outcome[r] = "Committed"))
  /\ [][C21_EventStep]_vars

\* one request published its event, the other ended in Conflict without one
C21_Witness ==
  \E r, q \in Reqs :
    /\ r \in events /\ outcome[r] = "Committed"
    /\ q \notin events /\ pc[q] = "done" /\ outcome[q] = "Conflict"

(***************************************************************************)
(* Terminal outcomes.                                                      *)
(***************************************************************************)
\* C22: every createBooking request that has returned ended in exactly one
\* of Committed, Conflict and Rejected.
C22_ThreeOutcomes ==
  \A r \in Reqs :
    pc[r] = "done" => outcome[r] \in {"Committed", "Conflict", "Rejected"}

(***************************************************************************)
(* The greedy fallback of allocate_rooms.                                  *)
(***************************************************************************)
AllConsidered == 1..Len(Considered)

\* the orders of the considered rooms by capacity descending, ties by price
\* ascending
GreedyOrders ==
  {p \in [AllConsidered -> AllConsidered] :
     /\ \A i, j \in AllConsidered : i # j => p[i] # p[j]
     /\ \A i, j \in AllConsidered :
          i < j => \/ CapOf(p[i]) > CapOf(p[j])
                   \/ /\ CapOf(p[i]) = CapOf(p[j])
                      /\ PriceOf(Considered[p[i]]) <= PriceOf(Considered[p[j]])}

\* C23: when no room alone and no combination of 2..max_k rooms holds the
\* guests, the result is the shortest prefix, of the rooms ordered by capacity
\* descending and price ascending, whose capacity reaches the guest count, and
\* it is empty when all the rooms together do not reach it.
C23_GreedyFallback ==
  (alloc.at = "returned" /\ alloc.guests > 0 /\ SingleFits = {} /\ ValidSizes = {}) =>
    IF SetSum(AllConsidered, "cap") < alloc.guests
      THEN alloc.result = <<>>
      ELSE \E p \in GreedyOrders, m \in AllConsidered :
             /\ SetSum({p[i] : i \in 1..m}, "cap") >= alloc.guests
             /\ SetSum({p[i] : i \in 1..(m - 1)}, "cap") < alloc.guests
             /\ alloc.result = [i \in 1..m |-> Considered[p[i]].id]

\* rooms A, F, D, B, 6 guests and pairs only: no pair holds 6 guests, and the
\* result is B, then F before A (equal capacity, F cheaper); D is not needed
C23_Witness ==
  /\ alloc.at = "returned"
  /\ CandidateIds(alloc.candidates) = <<1, 6, 4, 2>>
  /\ alloc.guests = 6 /\ ~alloc.allow_extra_beds /\ alloc.preferred_room_types = {}
  /\ alloc.max_k = 2
  /\ SingleFits = {} /\ ValidSizes = {}
  /\ CapOf(1) = CapOf(2) /\ PriceOf(Considered[2]) < PriceOf(Considered[1])
  /\ alloc.result = <<2, 6, 1>>

(***************************************************************************)
(* The preference filter of allocate_rooms.                                *)
(***************************************************************************)
\* the letters of the two strings are the same, whatever their case
SameLetters(v, t) == v \notin {Absent, PyNone} /\ v[1] = t[1]

\* the room's type or slug is one of the preferred types
Preferred(room) ==
  \E t \in alloc.preferred_room_types :
    SameLetters(room.slug, t) \/ SameLetters(room.type, t)

PreferredCandidates == SelectSeq(alloc.candidates, Preferred)

\* C24: with preferred types, the result is the allocation over the
\* candidates whose type or slug is a preferred type, compared without case,
\* and holds no other room; when no candidate is preferred the result is the
\* allocation over all the candidates without preferences.
C24_PreferenceFilter ==
  (alloc.at = "returned" /\ alloc.preferred_room_types # {}) =>
    IF PreferredCandidates # <<>>
      THEN /\ alloc.result = allocate_rooms(PreferredCandidates, alloc.guests,
                                            alloc.allow_extra_beds, {}, alloc.max_k)
           /\ \A j \in DOMAIN alloc.result :
                \E k \in DOMAIN alloc.candidates :
                  alloc.candidates[k].id = alloc.result[j] /\ Preferred(alloc.candidates[k])
      ELSE alloc.result = allocate_rooms(alloc.candidates, alloc.guests,
                                         alloc.allow_extra_beds, {}, alloc.max_k)

\* rooms B, A, C, 2 guests and the preferred type VILLA: the result is A,
\* whose type is written villa, though B holds the guests for less
C24_Witness ==
  /\ alloc.at = "returned"
  /\ CandidateIds(alloc.candidates) = <<2, 1, 3>>
  /\ alloc.guests = 2 /\ ~alloc.allow_extra_beds
  /\ alloc.preferred_room_types = {<<"villa", "upper">>}
  /\ CandidateIds(PreferredCandidates) = <<1, 3>>
  /\ alloc.candidates[2].type = <<"villa", "lower">>
  /\ allocate_rooms(alloc.candidates, 2, FALSE, {}, alloc.max_k) = <<2>>
  /\ alloc.result = <<1>>

(***************************************************************************)
(* The capacity policy.                                                    *)
(***************************************************************************)
\* the value of a numeric field, 0 when it is absent, None or no number
Num(v) == IF v[1] = "int" THEN v[2] ELSE 0

\* a bed-configuration count, 1 when it is missing or no number
RECURSIVE SumCounts(_)
SumCounts(bc) ==
  IF bc = <<>> THEN 0
  ELSE (IF Head(bc)[1] = "int" THEN Head(bc)[2] ELSE 1) + SumCounts(Tail(bc))

\* the capacity by the priority order of the policy
PolicyCapacity(room, allowExtraBeds) ==
  LET eb == IF room.extra_beds \notin {Absent, PyNone} THEN room.extra_beds
            ELSE room.extra_bedding
  IN IF room.capacity_adults # Absent \/ room.capacity_children # Absent
       THEN Num(room.capacity_adults) + Num(room.capacity_children)
              + (IF allowExtraBeds THEN Num(eb) ELSE 0)
       ELSE (IF room.capacity[1] = "int" THEN room.capacity[2]
             ELSE IF room.sleeps[1] = "int" THEN room.sleeps[2]
             ELSE SumCounts(room.bedConfig))
              + (IF allowExtraBeds THEN (IF eb[1] = "int" THEN eb[2] ELSE 1) ELSE 0)

\* C25: the capacity of a room follows the priority order: adults + children
\* (+ the extra-bed count, 0 when absent or no number) when an adult or child
\* field is present; else the integer capacity, else the integer sleeps, else
\* the sum of the bed counts (1 for a missing count), + the integer extra-bed
\* count or 1.
C25_CapacityPolicy ==
  alloc.at = "cap_returned" =>
    alloc.result[1] = PolicyCapacity(alloc.candidates[1], alloc.allow_extra_beds)

(***************************************************************************)
(* The result of allocate_rooms against the candidates of the call.        *)
(***************************************************************************)
\* the capacity of the candidate room with this id
CapById(id) ==
  LET k == CHOOSE x \in DOMAIN alloc.candidates : alloc.candidates[x].id = id
  IN room_capacity(alloc.candidates[k], alloc.allow_extra_beds)

RECURSIVE SeqCap(_)
SeqCap(ids) == IF ids = <<>> THEN 0 ELSE CapById(Head(ids)) + SeqCap(Tail(ids))

\* C26: a non-empty result is a list of distinct ids of candidate rooms that
\* together hold the guests, and none of its rooms is redundant: without any
\* one of them the others do not hold the guests.
C26_NoRedundantRoom ==
  (alloc.at = "returned" /\ alloc.result # <<>>) =>
    /\ \A i, j \in DOMAIN alloc.result : i # j => alloc.result[i] # alloc.result[j]
    /\ \A j \in DOMAIN alloc.result :
         \E k \in DOMAIN alloc.candidates : alloc.candidates[k].id = alloc.result[j]
    /\ SeqCap(alloc.result) >= alloc.guests
    /\ \A j \in DOMAIN alloc.result :
         SeqCap(alloc.result) - CapById(alloc.result[j]) < alloc.guests

\* rooms A, B, D and 6 guests give all three rooms, which hold exactly 6
C26_Witness ==
  /\ alloc.at = "returned"
  /\ CandidateIds(alloc.candidates) = <<1, 2, 4>>
  /\ alloc.guests = 6 /\ ~alloc.allow_extra_beds /\ alloc.preferred_room_types = {}
  /\ alloc.max_k = DefaultMaxK
  /\ alloc.result = <<1, 2, 4>>
  /\ SeqCap(alloc.result) = 6 /\ CapById(4) = 1

\* C27: for a positive guest count the result is empty only when all the
\* candidates of the call together do not hold the guests, with or without
\* preferred types.
C27_EmptyOnlyWhenTooSmall ==
  (alloc.at = "returned" /\ alloc.guests > 0 /\ alloc.result = <<>>) =>
    SeqCap(CandidateIds(alloc.candidates)) < alloc.guests

(***************************************************************************)
(* The stored bookings.                                                    *)
(***************************************************************************)
\* a stored booking that is not cancelled
Live(b) == bookings[b] # NoDoc /\ bookings[b].status # "cancelled"

\* C28: no two stored bookings of one accommodation, neither cancelled, have
\* overlapping half-open ranges; stated for the states in which no request
\* is under way and for ranges of whole days.
C28_NoOverlappingBookings ==
  \A a, b \in Reqs :
    (/\ a # b /\ Live(a) /\ Live(b)
     /\ pc[a] = "done" /\ pc[b] = "done" /\ del_pc = 0
     /\ bookings[a].accommodation_id = bookings[b].accommodation_id
     /\ WholeDays(inp[a]) /\ WholeDays(inp[b])
     /\ WholeDays(bookings[a]) /\ WholeDays(bookings[b]))
      => ~RangesOverlap(bookings[a], bookings[b])

\* request r is refused in this step: by a duplicate occupancy record on
\* either path, or by the overlap check
Refused(r) ==
  \/ pc[r] = "txn" /\ pc'[r] = "done" /\ outcome'[r] = "Conflict"
  \/ pc[r] = "occ" /\ pc'[r] = "rollback"
  \/ pc[r] = "check" /\ pc'[r] = "release"

\* a cancelled booking overlaps the whole-day range asked by r, and nothing
\* else does: every other overlapping booking and every occupancy record of
\* the accommodation belongs to a cancelled booking, and no other request is
\* under way
OnlyCancelledInTheWay(r) ==
  /\ WholeDays(inp[r])
  /\ \A b \in Reqs \ {r} : pc[b] = "done"
  /\ \E b \in Reqs \ {r} :
       /\ bookings[b].status = "cancelled"
       /\ bookings[b].accommodation_id = inp[r].acc
       /\ RangesOverlap(bookings[b], inp[r])
  /\ \A b \in Reqs \ {r} :
       (bookings[b] # NoDoc /\ bookings[b].accommodation_id = inp[r].acc
          /\ RangesOverlap(bookings[b], inp[r])) => bookings[b].status = "cancelled"
  /\ \A o \in occupancies :
       o.accommodation_id = inp[r].acc =>
         (o.booking_id # r /\ bookings[o.booking_id].status = "cancelled")

\* C29: a cancelled booking does not block its nights: a request whose range
\* overlaps a cancelled booking of the accommodation, and no other booking,
\* is not refused.
C29_CancelledDoesNotBlock ==
  [][\A r \in Reqs : OnlyCancelledInTheWay(r) => ~Refused(r)]_vars

\* C30: every booking committed by POST /bookings has at least one occupancy
\* record, for every accepted check_in < check_out, also when both stamps
\* are on one calendar date.
C30_CommittedHasOccupancy ==
  \A r \in Reqs :
    (/\ pc[r] = "done" /\ outcome[r] = "Committed" /\ adminOps = 0
     /\ inp[r].entry = "bookings" /\ inp[r].check_in < inp[r].check_out)
      => OccOf(r) # {}

====
